---- MODULE Spec2Model ----
(***************************************************************************)
(* Model of LRU_Cache.py: the LRUCache class (a dict index over a doubly    *)
(* linked recency list with two sentinel nodes) and the lru_cache_impl      *)
(* memoizing decorator built on it.                                         *)
(*                                                                          *)
(* Python objects are modelled as follows.  A _Node object is an integer    *)
(* identity into the heap `nodes`; the heap maps every node that is still   *)
(* referenced to its four fields.  None is the integer -1 and the           *)
(* module-level _SENTINEL object is -2, both distinct from every node       *)
(* identity, every key and every stored value.                              *)
(***************************************************************************)
EXTENDS Integers, Sequences, FiniteSets, TLC

VARIABLES
    pc,          \* "start" | "cache" (LRUCache built) | "raised" | "decorator" | "wrapper"
    capacity,    \* LRUCache.capacity
    data,        \* LRUCache._data : key -> node identity
    nodes,       \* heap of _Node objects : identity -> [key, val, prev, next]
    max_size,    \* lru_cache_impl's max_size argument (closure variable)
    typed,       \* lru_cache_impl's typed argument (closure variable)
    hits,        \* closure counter of the wrapper
    misses,      \* closure counter of the wrapper
    invoked,     \* number of times the wrapped function has been invoked
    ncalls,      \* number of calls made to the wrapper
    failed,      \* number of those calls in which the wrapped function raised
    called,      \* the distinct argument lists the wrapper was called with
    last,        \* the last completed call: its name, arguments and outcome
    accessed,    \* keys in order of their last access, oldest first
    held         \* a _Node reference kept by the client, or None

vars == <<pc, capacity, data, nodes, max_size, typed, hits, misses, invoked,
          ncalls, failed, called, last, accessed, held>>

-----------------------------------------------------------------------------
(* Bounds of the model *)

NumKeys == 3
MaxCap == 2
MaxCalls == 3

-----------------------------------------------------------------------------
(* Python values *)

None == -1
SENTINEL == -2

head == 0
tail == 1

Keys == 1..NumKeys
Vals == {None, 0, 1}
Capacities == (-1)..MaxCap

Node(k, v, p, n) == [key |-> k, val |-> v, prev |-> p, next |-> n]

EmptyDict == [k \in {} |-> None]

DictGet(d, k) == IF k \in DOMAIN d THEN d[k] ELSE None

DictSet(d, k, x) == [j \in DOMAIN d \cup {k} |-> IF j = k THEN x ELSE d[j]]

DictDelKeeps(d, k) == d

DictDel(d, k) == [j \in DOMAIN d \ {k} |-> d[j]]

Size(d) == Cardinality(DOMAIN d)

-----------------------------------------------------------------------------
(* The heap: allocation and reference-counted reclamation *)

NewId(h) == CHOOSE n \in 2..(Cardinality(DOMAIN h) + 2) : n \notin DOMAIN h

Alloc(h, k, v) == [n \in DOMAIN h \cup {NewId(h)} |->
                      IF n \in DOMAIN h THEN h[n] ELSE Node(k, v, None, None)]

Refs(h, n) == {h[n].prev, h[n].next} \ {None}

RECURSIVE Reach(_, _)
Reach(h, S) ==
    LET T == S \cup UNION {Refs(h, n) : n \in S}
    IN  IF T = S THEN S ELSE Reach(h, T)

\* the nodes still referenced: by the cache, by the index, or by the client
Roots(d) == {head, tail} \cup {d[k] : k \in DOMAIN d} \cup ({held} \ {None})

Collect(h, d) ==
    LET live == Reach(h, Roots(d))
    IN  [n \in live |-> h[n]]

-----------------------------------------------------------------------------
(* LRUCache *)

RemoveForwardOnly(h, node) ==
    LET prev == h[node].prev
        next == h[node].next
    IN  IF prev # None THEN [h EXCEPT ![prev].next = next] ELSE h

Remove(h, node) ==
    LET prev == h[node].prev
        next == h[node].next
        h1 == IF prev # None THEN [h EXCEPT ![prev].next = next] ELSE h
    IN  IF next # None THEN [h1 EXCEPT ![next].prev = prev] ELSE h1

MoveBack(h, node) ==
    LET h0 == Remove(h, node)
        next_tail == h0[tail].next
        h1 == [h0 EXCEPT ![next_tail].prev = node]
        h2 == [h1 EXCEPT ![node].next = next_tail]
        h3 == [h2 EXCEPT ![node].prev = tail]
    IN  [h3 EXCEPT ![tail].next = node]

MoveFrontNoForwardLink(h, node) ==
    LET h0 == Remove(h, node)
        prev_head == h0[head].prev
        h2 == [h0 EXCEPT ![node].prev = prev_head]
        h3 == [h2 EXCEPT ![node].next = head]
    IN  [h3 EXCEPT ![head].prev = node]

MoveFront(h, node) ==
    LET h0 == Remove(h, node)
        prev_head == h0[head].prev
        h1 == [h0 EXCEPT ![prev_head].next = node]
        h2 == [h1 EXCEPT ![node].prev = prev_head]
        h3 == [h2 EXCEPT ![node].next = head]
    IN  [h3 EXCEPT ![head].prev = node]

PopNodeNewest(h) == h[head].prev

PopNode(h) == h[tail].next

PopHeap(h) == Remove(h, PopNode(h))

\* LRUCache.__init__: the empty index and the two linked sentinels
NewData == EmptyDict

NewNodes == [n \in {head, tail} |->
               IF n = head THEN Node(SENTINEL, SENTINEL, tail, None)
                           ELSE Node(SENTINEL, SENTINEL, None, head)]

\* LRUCache.get(k, default): the heap after the call and the value returned
GetNodesTouchOnMiss(d, h, k) ==
    LET node == DictGet(d, k)
    IN  IF node # None THEN MoveFront(h, node)
        ELSE IF h[tail].next # head THEN MoveFront(h, h[tail].next) ELSE h

GetNodesNoMove(d, h, k) == h

GetNodes(d, h, k) ==
    LET node == DictGet(d, k)
    IN  IF node = None THEN h ELSE MoveFront(h, node)

GetRet(d, h, k, default) ==
    LET node == DictGet(d, k)
    IN  IF node = None THEN default ELSE MoveFront(h, node)[node].val

\* LRUCache.put(k, v): index, heap, returned value and evicted key after the
\* call; the node popped on overflow is dropped when the call returns
OverflowOffByOne(d, cap) == Size(d) > cap + 1

OverflowAtCapacity(d, cap) == Size(d) >= cap

Overflow(d, cap) == Size(d) > cap

PutCall(d, h, cap, k, v) ==
    LET node == DictGet(d, k)
    IN  IF node # None
        THEN LET h1 == MoveFront(h, node)
             IN  [data |-> d, nodes |-> h1, ret |-> h1[node].val,
                  popped |-> FALSE, evicted |-> None]
        ELSE LET new == NewId(h)
                 d1  == DictSet(d, k, new)
                 h1  == MoveFront(Alloc(h, k, v), new)
             IN  IF Overflow(d1, cap)
                 THEN LET lru == PopNode(h1)
                          h2  == PopHeap(h1)
                          d2  == DictDel(d1, h2[lru].key)
                      IN  [data |-> d2, nodes |-> Collect(h2, d2),
                           ret |-> None, popped |-> TRUE, evicted |-> h2[lru].key]
                 ELSE [data |-> d1, nodes |-> h1, ret |-> None,
                       popped |-> FALSE, evicted |-> None]

-----------------------------------------------------------------------------
(* Record of the last completed call *)

Call(op, k, v, default, ret, present, popped, evicted, ran, raised) ==
    [op |-> op, key |-> k, val |-> v, default |-> default, ret |-> ret,
     present |-> present, popped |-> popped, evicted |-> evicted,
     ran |-> ran, raised |-> raised]

NoCall == Call("none", None, None, None, None, FALSE, FALSE, None, FALSE, FALSE)

\* the order of last accesses after an access to k
Touch(s, k) == Append(SelectSeq(s, LAMBDA x : x # k), k)

-----------------------------------------------------------------------------
(* A client using an LRUCache directly *)

Init ==
    /\ pc = "start"
    /\ capacity = None
    /\ data = EmptyDict
    /\ nodes = EmptyDict
    /\ max_size = None
    /\ typed = FALSE
    /\ hits = None
    /\ misses = None
    /\ invoked = 0
    /\ ncalls = 0
    /\ failed = 0
    /\ called = {}
    /\ last = NoCall
    /\ accessed = <<>>
    /\ held = None

\* LRUCache(capacity)
Construct(cap) ==
    /\ pc = "start"
    /\ pc' = "cache"
    /\ capacity' = cap
    /\ data' = NewData
    /\ nodes' = NewNodes
    /\ last' = Call("LRUCache", None, cap, None, None, FALSE, FALSE, None, FALSE, FALSE)
    /\ UNCHANGED <<max_size, typed, hits, misses, invoked, ncalls, failed, called,
                   accessed, held>>

\* cache.get(k, default)
Get(k, default) ==
    /\ pc = "cache"
    /\ nodes' = GetNodes(data, nodes, k)
    /\ last' = Call("get", k, None, default, GetRet(data, nodes, k, default),
                    k \in DOMAIN data, FALSE, None, FALSE, FALSE)
    /\ accessed' = IF k \in DOMAIN data THEN Touch(accessed, k) ELSE accessed
    /\ UNCHANGED <<pc, capacity, data, max_size, typed, hits, misses, invoked,
                   ncalls, failed, called, held>>

\* cache.put(k, v)
Put(k, v) ==
    /\ pc = "cache"
    /\ LET r == PutCall(data, nodes, capacity, k, v)
       IN  /\ data' = r.data
           /\ nodes' = r.nodes
           /\ last' = Call("put", k, v, None, r.ret, k \in DOMAIN data,
                           r.popped, r.evicted, FALSE, FALSE)
    /\ accessed' = Touch(accessed, k)
    /\ UNCHANGED <<pc, capacity, max_size, typed, hits, misses, invoked,
                   ncalls, failed, called, held>>

Next ==
    \/ \E cap \in Capacities : Construct(cap)
    \/ \E k \in Keys, default \in Vals : Get(k, default)
    \/ \E k \in Keys, v \in Vals : Put(k, v)

Spec == Init /\ [][Next]_vars

-----------------------------------------------------------------------------
(* _normalize_key *)

\* An argument is a number with its runtime type.  Python compares and
\* hashes 1 and 1.0 as the same dict key, so the components of a key that
\* hold values carry the number alone; type objects are compared by identity.
PyInt(n) == [v |-> n, t |-> "int"]

PyFloat(n) == [v |-> n, t |-> "float"]

\* the argument lists the wrapper is called with: positional arguments in
\* order and keyword arguments in the order the caller wrote them
Calls ==
    { [args |-> <<PyInt(1)>>,   kwargs |-> <<>>],
      [args |-> <<PyFloat(1)>>, kwargs |-> <<>>],
      [args |-> <<PyInt(2)>>,   kwargs |-> <<>>],
      [args |-> <<>>,         kwargs |-> << <<"a", PyInt(1)>>, <<"b", PyInt(2)>> >>],
      [args |-> <<>>,         kwargs |-> << <<"b", PyInt(2)>>, <<"a", PyInt(1)>> >>],
      [args |-> <<>>,         kwargs |-> << <<"b", PyFloat(2)>>, <<"a", PyInt(1)>> >>] }

\* string order on the keyword names in use
NameOrder == <<"a", "b">>

Rank(name) == CHOOSE i \in 1..Len(NameOrder) : NameOrder[i] = name

Range(s) == {s[i] : i \in 1..Len(s)}

\* sorted(kwargs.items()): names are unique, so the name decides the order
SortedItemsAsWritten(kwargs) == kwargs

SortedItems(kwargs) ==
    [i \in 1..Len(kwargs) |->
        CHOOSE x \in Range(kwargs) :
            Cardinality({y \in Range(kwargs) : Rank(y[1]) < Rank(x[1])}) = i - 1]

NormalizeKey(args, kwargs, ty) ==
    LET items  == IF kwargs # <<>> THEN SortedItems(kwargs) ELSE <<>>
        argsV  == [i \in 1..Len(args) |-> args[i].v]
        itemsV == [i \in 1..Len(items) |-> <<items[i][1], items[i][2].v>>]
    IN  IF ty
        THEN <<argsV, itemsV,
               [i \in 1..Len(args) |-> args[i].t],
               [i \in 1..Len(items) |-> items[i][2].t]>>
        ELSE <<argsV, itemsV>>

-----------------------------------------------------------------------------
(* lru_cache_impl: the decorator factory, the decorator and the wrapper *)

MaxSizes == (-1)..MaxCap

InvalidMaxSizeNegativeOnly(ms) == ms < 0

InvalidMaxSize(ms) == ms <= 0

\* lru_cache_impl(max_size, typed)
LruCacheImpl(ms, ty) ==
    /\ pc = "start"
    /\ pc' = IF InvalidMaxSize(ms) THEN "raised" ELSE "decorator"
    /\ max_size' = ms
    /\ typed' = ty
    /\ last' = Call("lru_cache_impl", None, ms, None, None, FALSE, FALSE, None,
                    FALSE, InvalidMaxSize(ms))
    /\ UNCHANGED <<capacity, data, nodes, hits, misses, invoked, ncalls, failed,
                   called, accessed, held>>

\* decorator(func)
Decorator ==
    /\ pc = "decorator"
    /\ pc' = "wrapper"
    /\ capacity' = max_size
    /\ data' = NewData
    /\ nodes' = NewNodes
    /\ hits' = 0
    /\ misses' = 0
    /\ last' = Call("decorator", None, None, None, None, FALSE, FALSE, None,
                    FALSE, FALSE)
    /\ UNCHANGED <<max_size, typed, invoked, ncalls, failed, called, accessed, held>>

\* wrapper(*args, **kwargs), where func either returns value or raises
WrapperCachesFailure(c, value, raises) ==
    /\ pc = "wrapper"
    /\ ncalls < MaxCalls
    /\ ncalls' = ncalls + 1
    /\ called' = called \cup {c}
    /\ LET key    == NormalizeKey(c.args, c.kwargs, typed)
           cached == GetRet(data, nodes, key, None)
           h1     == GetNodes(data, nodes, key)
           r      == PutCall(data, h1, capacity, key, IF raises THEN None ELSE value)
       IN  IF cached # None
           THEN /\ hits' = hits + 1
                /\ nodes' = h1
                /\ last' = Call("wrapper", key, None, None, cached,
                                key \in DOMAIN data, FALSE, None, FALSE, FALSE)
                /\ UNCHANGED <<data, misses, invoked, failed>>
           ELSE /\ misses' = misses + 1
                /\ invoked' = invoked + 1
                /\ hits' = hits
                /\ data' = r.data
                /\ nodes' = r.nodes
                /\ failed' = IF raises THEN failed + 1 ELSE failed
                /\ last' = Call("wrapper", key, IF raises THEN None ELSE value, None,
                                IF raises THEN None ELSE value,
                                key \in DOMAIN data, r.popped, r.evicted, TRUE, raises)
    /\ UNCHANGED <<pc, capacity, max_size, typed, accessed, held>>

WrapperCountsAfterCall(c, value, raises) ==
    /\ pc = "wrapper"
    /\ ncalls < MaxCalls
    /\ ncalls' = ncalls + 1
    /\ called' = called \cup {c}
    /\ LET key    == NormalizeKey(c.args, c.kwargs, typed)
           cached == GetRet(data, nodes, key, None)
           h1     == GetNodes(data, nodes, key)
           r      == PutCall(data, h1, capacity, key, value)
       IN  IF cached # None
           THEN /\ hits' = hits + 1
                /\ nodes' = h1
                /\ last' = Call("wrapper", key, None, None, cached,
                                key \in DOMAIN data, FALSE, None, FALSE, FALSE)
                /\ UNCHANGED <<data, misses, invoked, failed>>
           ELSE /\ invoked' = invoked + 1
                /\ hits' = hits
                /\ IF raises
                   THEN /\ nodes' = h1
                        /\ misses' = misses
                        /\ failed' = failed + 1
                        /\ last' = Call("wrapper", key, None, None, None,
                                        key \in DOMAIN data, FALSE, None, TRUE, TRUE)
                        /\ UNCHANGED data
                   ELSE /\ data' = r.data
                        /\ nodes' = r.nodes
                        /\ misses' = misses + 1
                        /\ failed' = failed
                        /\ last' = Call("wrapper", key, value, None, value,
                                        key \in DOMAIN data, r.popped, r.evicted,
                                        TRUE, FALSE)
    /\ UNCHANGED <<pc, capacity, max_size, typed, accessed, held>>

Wrapper(c, value, raises) ==
    /\ pc = "wrapper"
    /\ ncalls < MaxCalls
    /\ ncalls' = ncalls + 1
    /\ called' = called \cup {c}
    /\ LET key    == NormalizeKey(c.args, c.kwargs, typed)
           cached == GetRet(data, nodes, key, None)
           h1     == GetNodes(data, nodes, key)
           r      == PutCall(data, h1, capacity, key, value)
       IN  IF cached # None
           THEN /\ hits' = hits + 1
                /\ nodes' = h1
                /\ last' = Call("wrapper", key, None, None, cached,
                                key \in DOMAIN data, FALSE, None, FALSE, FALSE)
                /\ UNCHANGED <<data, misses, invoked, failed>>
           ELSE /\ misses' = misses + 1
                /\ invoked' = invoked + 1
                /\ hits' = hits
                /\ IF raises
                   THEN /\ nodes' = h1
                        /\ failed' = failed + 1
                        /\ last' = Call("wrapper", key, None, None, None,
                                        key \in DOMAIN data, FALSE, None, TRUE, TRUE)
                        /\ UNCHANGED data
                   ELSE /\ data' = r.data
                        /\ nodes' = r.nodes
                        /\ failed' = failed
                        /\ last' = Call("wrapper", key, value, None, value,
                                        key \in DOMAIN data, r.popped, r.evicted,
                                        TRUE, FALSE)
    /\ UNCHANGED <<pc, capacity, max_size, typed, accessed, held>>

\* wrapper.cache_info()
CacheInfoOf(h, m, ms, d) == [hits |-> h, misses |-> m, max_size |-> ms, currsize |-> Size(d)]

CacheInfo ==
    /\ pc = "wrapper"
    /\ last' = Call("cache_info", None, None, None,
                    CacheInfoOf(hits, misses, max_size, data),
                    FALSE, FALSE, None, FALSE, FALSE)
    /\ UNCHANGED <<pc, capacity, data, nodes, max_size, typed, hits, misses,
                   invoked, ncalls, failed, called, accessed, held>>

WrapNext ==
    \/ \E ms \in MaxSizes, ty \in BOOLEAN : LruCacheImpl(ms, ty)
    \/ Decorator
    \/ \E c \in Calls, value \in Vals, raises \in BOOLEAN :
          \* a call that raises returns no value
          (raises => value = None) /\ Wrapper(c, value, raises)
    \/ CacheInfo

WrapSpec == Init /\ [][WrapNext]_vars

-----------------------------------------------------------------------------
(* Reading the recency list *)

\* node identities met from n by following next, up to the head sentinel
RECURSIVE Walk(_, _, _)
Walk(h, n, fuel) ==
    IF n = head \/ n = None \/ n \notin DOMAIN h \/ fuel = 0
    THEN <<>>
    ELSE <<n>> \o Walk(h, h[n].next, fuel - 1)

\* the live nodes from least to most recently used, and their keys
Chain(h) == IF tail \in DOMAIN h THEN Walk(h, h[tail].next, Cardinality(DOMAIN h)) ELSE <<>>

ChainKeys(h) == [i \in 1..Len(Chain(h)) |-> h[Chain(h)[i]].key]

\* the keys held in the index, in order of last access, oldest first
HeldByAge(s, d) == SelectSeq(s, LAMBDA x : x \in DOMAIN d)

-----------------------------------------------------------------------------
(* Claims about LRUCache *)

\* C1: a cache built with capacity >= 1 never holds more than capacity
\* entries after a completed get or put.
C1_CapacityInvariant ==
    (pc = "cache" /\ capacity >= 1) => Size(data) <= capacity

\* a put has just evicted from a full cache
C1_Witness ==
    /\ pc = "cache" /\ capacity >= 1
    /\ last.op = "put" /\ last.popped
    /\ Size(data) = capacity

C3_GetHit ==
    [][(last'.op = "get" /\ last'.present)
         => /\ last'.ret = nodes[data[last'.key]].val
            /\ data' = data
            /\ \A k \in DOMAIN data : nodes'[data[k]].val = nodes[data[k]].val
            /\ ChainKeys(nodes') = Touch(ChainKeys(nodes), last'.key)]_vars

\* a get has hit one of two entries, which is now the most recently used
C3_Witness ==
    /\ last.op = "get" /\ last.present
    /\ Size(data) = 2
    /\ ChainKeys(nodes)[2] = last.key
    /\ accessed[Len(accessed)] = last.key

\* C4 (as claimed): get yields the absent result exactly when the key is
\* not in the index.
C4_AbsentIffMissing ==
    last.op = "get" => ((last.ret = last.default) <=> ~last.present)

\* C5: a get on a key that is not in the index changes neither the index
\* nor any node of the list.
C5_GetMissNoEffect ==
    [][(last'.op = "get" /\ ~last'.present)
         => (data' = data /\ nodes' = nodes /\ last'.ret = last'.default)]_vars

\* a get has missed on a cache that holds entries
C5_Witness ==
    /\ last.op = "get" /\ ~last.present
    /\ Size(data) = 2

\* C6 (as claimed): after put(key, value) on a cache of capacity >= 1, a get
\* of that key returns the value of this latest put.
C6_PutOverwrites ==
    (capacity >= 1 /\ last.op = "put")
        => GetRet(data, nodes, last.key, None) = last.val

\* C7 (as claimed): only capacity >= 1 constructs a cache.
C7_ConstructionRejectsNonPositive ==
    pc = "cache" => capacity >= 1

-----------------------------------------------------------------------------
(* Claims about the memoizing wrapper *)

\* C8: lru_cache_impl with max_size <= 0 raises before any function is
\* wrapped: no cache is created, no counter exists and the target function
\* is never invoked; a decorator or wrapper exists only for max_size >= 1.
C8_FactoryRejectsNonPositive ==
    /\ (last.op = "lru_cache_impl" /\ last.val <= 0)
          => /\ pc = "raised" /\ last.raised
             /\ data = EmptyDict /\ nodes = EmptyDict
             /\ hits = None /\ misses = None
             /\ invoked = 0
    /\ pc \in {"decorator", "wrapper"} => max_size >= 1

\* lru_cache_impl(0) has raised
C8_Witness ==
    /\ pc = "raised"
    /\ last.op = "lru_cache_impl" /\ last.val = 0

\* C9 (as claimed): a wrapper call whose key is in the cache, whatever value
\* is stored under it, adds one to hits, leaves misses alone, does not invoke
\* the function and returns the stored value.
C9_HitContract ==
    [][(last'.op = "wrapper" /\ last'.present)
         => /\ hits' = hits + 1
            /\ misses' = misses
            /\ invoked' = invoked
            /\ last'.ret = nodes[data[last'.key]].val]_vars

\* C10 (as claimed): after n >= 1 calls with the same arguments to a function
\* that returned normally each time it ran, misses = 1, hits = n - 1 and the
\* function has run exactly once.
C10_HitMissAccounting ==
    (pc = "wrapper" /\ ncalls >= 1 /\ Cardinality(called) = 1 /\ failed = 0)
        => (misses = 1 /\ hits = ncalls - 1 /\ invoked = 1)

\* C11: when the key is not cached and the wrapped function raises, the
\* error reaches the caller, the index and every node of the list are as
\* before the call, the cache holds no entry for the key, and the next call
\* with the same arguments runs the function again.
C11_NoCachingOnFailure ==
    [][(last'.op = "wrapper" /\ last'.raised /\ ~last'.present)
         => /\ data' = data
            /\ nodes' = nodes
            /\ last'.key \notin DOMAIN data'
            /\ GetRet(data', nodes', last'.key, None) = None
            /\ last'.ran /\ invoked' = invoked + 1]_vars

\* the function has raised on an uncached key while another key is cached
C11_Witness ==
    /\ last.op = "wrapper" /\ last.raised /\ ~last.present
    /\ Size(data) = 1
    /\ failed = 1 /\ ncalls = 2

\* what two argument lists are compared by: the positional values in order,
\* the named values by name, and the runtime types of both
ArgValues(c) == [i \in 1..Len(c.args) |-> c.args[i].v]

ArgTypes(c) == [i \in 1..Len(c.args) |-> c.args[i].t]

NamedValues(c) == {<<c.kwargs[i][1], c.kwargs[i][2].v>> : i \in 1..Len(c.kwargs)}

NamedTypes(c) == {<<c.kwargs[i][1], c.kwargs[i][2].t>> : i \in 1..Len(c.kwargs)}

EqualByValue(c1, c2) ==
    ArgValues(c1) = ArgValues(c2) /\ NamedValues(c1) = NamedValues(c2)

DifferInType(c1, c2) ==
    ArgTypes(c1) # ArgTypes(c2) \/ NamedTypes(c1) # NamedTypes(c2)

\* C12 (as claimed): argument lists equal value by value that differ in the
\* type of some positional or named value get distinct keys when typed is
\* true and equal keys when it is false, and two calls with them on a fresh
\* wrapper give 2 misses when typed and 1 miss and 1 hit when not.
C12_TypeSensitiveKeying ==
    /\ \A c1, c2 \in Calls :
          (EqualByValue(c1, c2) /\ DifferInType(c1, c2))
             => /\ NormalizeKey(c1.args, c1.kwargs, TRUE)
                     # NormalizeKey(c2.args, c2.kwargs, TRUE)
                /\ NormalizeKey(c1.args, c1.kwargs, FALSE)
                     = NormalizeKey(c2.args, c2.kwargs, FALSE)
    /\ (/\ pc = "wrapper" /\ ncalls = 2 /\ failed = 0
        /\ \E c1, c2 \in called :
              called = {c1, c2} /\ EqualByValue(c1, c2) /\ DifferInType(c1, c2))
          => IF typed THEN misses = 2 /\ hits = 0
                      ELSE misses = 1 /\ hits = 1

-----------------------------------------------------------------------------
(* _normalize_key applied to arbitrary argument lists *)

MaxArgs == 2

ArgVals == {PyInt(1), PyFloat(1), PyInt(2)}

Names == Range(NameOrder)

\* positional tuples of up to MaxArgs values
ArgLists == UNION {[1..n -> ArgVals] : n \in 0..MaxArgs}

\* keyword arguments in the order written, every name at most once
KwargLists ==
    {kw \in UNION {[1..n -> Names \X ArgVals] : n \in 0..Len(NameOrder)} :
        \A i, j \in 1..Len(kw) : i # j => kw[i][1] # kw[j][1]}

\* key = _normalize_key(args, kwargs, typed)
Normalize(args, kwargs, ty) ==
    /\ pc \in {"start", "key"}
    /\ pc' = "key"
    /\ typed' = ty
    /\ last' = Call("_normalize_key", None, [args |-> args, kwargs |-> kwargs],
                    None, NormalizeKey(args, kwargs, ty),
                    FALSE, FALSE, None, FALSE, FALSE)
    /\ UNCHANGED <<capacity, data, nodes, max_size, hits, misses, invoked, ncalls,
                   failed, called, accessed, held>>

KeyNext ==
    \E args \in ArgLists, kwargs \in KwargLists, ty \in BOOLEAN :
        Normalize(args, kwargs, ty)

KeySpec == Init /\ [][KeyNext]_vars

\* b is a with the values at two positions exchanged, and those values differ
SwappedPositions(a, b) ==
    /\ Len(a) = Len(b)
    /\ \E i, j \in 1..Len(a) :
          /\ i # j /\ a[i].v # a[j].v
          /\ b = [a EXCEPT ![i] = a[j], ![j] = a[i]]

\* C13: two successive calls of _normalize_key in the same mode return the
\* same key when they have the same positional sequence and the same set of
\* (name, value) pairs, in whatever order the named arguments were written,
\* and different keys when two different positional values are exchanged.
C13_OrderIndependentKeying ==
    [][(last.op = "_normalize_key" /\ last'.op = "_normalize_key" /\ typed' = typed)
         => /\ (/\ last'.val.args = last.val.args
                /\ Range(last'.val.kwargs) = Range(last.val.kwargs))
                  => last'.ret = last.ret
            /\ (/\ SwappedPositions(last.val.args, last'.val.args)
                /\ Range(last'.val.kwargs) = Range(last.val.kwargs))
                  => last'.ret # last.ret]_vars

\* a typed key has been computed from named arguments written out of order
C13_Witness ==
    /\ last.op = "_normalize_key" /\ typed
    /\ Len(last.val.kwargs) = 2
    /\ last.val.kwargs[1][1] = "b"
    /\ last.ret[2][1][1] = "a"

-----------------------------------------------------------------------------
(* Claims about the structure of the cache *)

\* C14: between operations the keys of the index are exactly the keys of the
\* nodes between tail and head, every key is on exactly one list node, each
\* index entry points to the node carrying its key, and the index has as
\* many entries as the list has live nodes.
C14_DualConsistency ==
    pc = "cache" =>
        LET ch == Chain(nodes)
            ks == ChainKeys(nodes)
        IN  /\ DOMAIN data = Range(ks)
            /\ \A i, j \in 1..Len(ks) : i # j => ks[i] # ks[j]
            /\ \A k \in DOMAIN data :
                  data[k] \in Range(ch) /\ nodes[data[k]].key = k
            /\ Size(data) = Len(ch)

\* a get has hit an entry of a full cache that has evicted before
C14_Witness ==
    /\ last.op = "get" /\ last.present
    /\ Len(accessed) = 3
    /\ Size(data) = 2

\* C15: after every get and put, following next from the tail sentinel
\* reaches the head sentinel without repeating a node, prev is the inverse
\* of next along that chain, and the nodes met are ordered from least to
\* most recently used.
C15_ListWellFormed ==
    pc = "cache" =>
        LET full == <<tail>> \o Chain(nodes) \o <<head>>
        IN  /\ \A i, j \in 1..Len(full) : i # j => full[i] # full[j]
            /\ \A i \in 1..(Len(full) - 1) :
                  /\ nodes[full[i]].next = full[i + 1]
                  /\ nodes[full[i + 1]].prev = full[i]
            /\ ChainKeys(nodes) = HeldByAge(accessed, data)

\* a put on a key already held has moved it behind the other entry
C15_Witness ==
    /\ capacity = 2
    /\ last.op = "put" /\ last.present
    /\ Size(data) = 2
    /\ ChainKeys(nodes)[2] = last.key
    /\ accessed[Len(accessed)] = last.key

-----------------------------------------------------------------------------
(* A client that keeps a node reference and calls _remove on it *)

MaxNodes == 6

\* node = cache._data[k]
Hold(k) ==
    /\ pc = "cache"
    /\ held = None
    /\ k \in DOMAIN data
    /\ held' = data[k]
    /\ last' = Call("hold", k, None, None, None, TRUE, FALSE, None, FALSE, FALSE)
    /\ UNCHANGED <<pc, capacity, data, nodes, max_size, typed, hits, misses,
                   invoked, ncalls, failed, called, accessed>>

\* cache._remove(node), on a node that an earlier put has evicted
RemoveHeld ==
    /\ pc = "cache"
    /\ held # None
    /\ held \notin {data[k] : k \in DOMAIN data}
    /\ pc' = "removed"
    /\ nodes' = Remove(nodes, held)
    /\ last' = Call("_remove", nodes[held].key, None, None, None, FALSE, FALSE,
                    None, FALSE, FALSE)
    /\ UNCHANGED <<capacity, data, max_size, typed, hits, misses, invoked,
                   ncalls, failed, called, accessed, held>>

RemoveNext ==
    \/ \E cap \in Capacities : Construct(cap)
    \/ \E k \in Keys, default \in Vals : Get(k, default)
    \/ \E k \in Keys, v \in Vals :
          Cardinality(DOMAIN nodes) < MaxNodes /\ Put(k, v)
    \/ \E k \in Keys : Hold(k)
    \/ RemoveHeld

RemoveSpec == Init /\ [][RemoveNext]_vars

\* C17 (as claimed): _remove on a node that was unlinked earlier leaves every
\* prev/next link of the sentinels and of the live nodes as it was.
C17_IdempotentRemoval ==
    [][last'.op = "_remove"
         => \A n \in {head, tail} \cup {data[k] : k \in DOMAIN data} :
               nodes'[n] = nodes[n]]_vars

\* C18: for every capacity the constructor takes, the node a put pops is a
\* live node carrying a real key, never a sentinel, and the sentinels stay
\* in place: tail first and head last in the chain, with their outer links
\* None and no index entry pointing at them.
C18_PopNeverTakesSentinel ==
    pc = "cache" =>
        LET ch    == Chain(nodes)
            first == IF ch = <<>> THEN head ELSE ch[1]
            final == IF ch = <<>> THEN tail ELSE ch[Len(ch)]
        IN  /\ (last.op = "put" /\ last.popped)
                  => (last.evicted # SENTINEL /\ last.evicted \in Keys)
            /\ {head, tail} \subseteq DOMAIN nodes
            /\ nodes[head].key = SENTINEL /\ nodes[tail].key = SENTINEL
            /\ nodes[tail].prev = None /\ nodes[head].next = None
            /\ nodes[tail].next = first /\ nodes[head].prev = final
            /\ nodes[final].next = head
            /\ \A k \in DOMAIN data : data[k] \notin {head, tail}

\* a cache of capacity <= 0 has popped the node it had just inserted
C18_Witness ==
    /\ pc = "cache" /\ capacity <= 0
    /\ last.op = "put" /\ last.popped
    /\ last.evicted = last.key
    /\ Size(data) = 0

\* the last n elements of a sequence
LastN(s, n) == SubSeq(s, Len(s) - n + 1, Len(s))

Min(a, b) == IF a <= b THEN a ELSE b

\* C19: for capacity >= 1 the cache holds exactly the min(capacity, number of
\* distinct keys ever put) most recently accessed keys, an access being a put
\* of the key or a get that found it, and the list from least to most
\* recently used is those keys in the order of their last accesses.
C19_ReferenceModel ==
    (pc = "cache" /\ capacity >= 1) =>
        LET recent == LastN(accessed, Min(capacity, Len(accessed)))
        IN  /\ ChainKeys(nodes) = recent
            /\ DOMAIN data = Range(recent)

\* a get of the key evicted from a cache of capacity 2 has missed
C19_Witness ==
    /\ capacity = 2
    /\ Len(accessed) = 3
    /\ last.op = "get" /\ ~last.present
    /\ last.key = accessed[1]

\* C20: every call of the wrapper adds exactly 1 to exactly one of hits and
\* misses, also when the wrapped function raises; the counters never
\* decrease, hits + misses is the number of calls, misses is the number of
\* runs of the wrapped function, and cache_info() returns these counters with
\* max_size and len(cache), where currsize <= max_size.
C20_CounterAccounting ==
    [][pc' = "wrapper"
         => /\ hits' + misses' = ncalls'
            /\ misses' = invoked'
            /\ Size(data') <= max_size'
            /\ pc = "wrapper" => (hits' >= hits /\ misses' >= misses)
            /\ last'.op = "wrapper"
                  => /\ ncalls' = ncalls + 1
                     /\ \/ hits' = hits + 1 /\ misses' = misses
                        \/ hits' = hits /\ misses' = misses + 1
            /\ last'.op = "cache_info"
                  => /\ last'.ret.hits = hits /\ last'.ret.misses = misses
                     /\ last'.ret.max_size = max_size
                     /\ last'.ret.currsize = Size(data)
                     /\ last'.ret.currsize <= last'.ret.max_size
                     /\ hits' = hits /\ misses' = misses /\ data' = data]_vars

\* cache_info() is read after a miss, a hit and a call in which the
\* function raised
C20_Witness ==
    /\ last.op = "cache_info"
    /\ last.ret.hits = 1 /\ last.ret.misses = 2
    /\ failed = 1 /\ ncalls = 3

====
